---- MODULE Spec2Model ----
(***************************************************************************)
(* Model of oc_graphenricher's InstanceMatching (instancematching/         *)
(* __init__.py): the deduplication of Responsible Agents (RA),             *)
(* Bibliographic Resources (BR) and Identifiers (ID) of an OCDM graph set. *)
(*                                                                         *)
(* The graph set is a record gs of the entities' fields.  Entities are     *)
(* numbered; the number of an entity is the rank of its URI in Python's    *)
(* string order, so "sorted by str(entity)" is "sorted by number".         *)
(* 0 stands for None.                                                      *)
(***************************************************************************)
EXTENDS Integers, Sequences, FiniteSets, TLC

(* ---------------------------------------------------------------- bounds *)
MaxRa == 3
MaxAr == 4
MaxBr == 4
(* a key names one (scheme, literal) pair *)
MaxKey == 2
(* identifier objects: one for every agent and key, and one more *)
MaxId == MaxRa * MaxKey + 1

Agents == 1..MaxRa
Roles  == 1..MaxAr
Docs   == 1..MaxBr
Ids    == 1..MaxId

NoneV == 0

(* a name is a sequence of characters; NoName is the None of a name *)
NoName == <<"None">>

Keys == 1..MaxKey

(* role kinds (GraphEntity.iri_author, iri_publisher, iri_editor) *)
Author    == "author"
Publisher == "publisher"
Editor    == "editor"
(* the role type of an AR without one *)
NoRole    == "none"

(* type tags of a BR; every BR carries fabio:Expression *)
Expression == "expression"
Article    == "article"
Issue      == "issue"
Volume     == "volume"

(* ------------------------------------------------------------- sequences *)
RECURSIVE SeqToSet(_)
SeqToSet(s) == IF s = << >> THEN {} ELSE {Head(s)} \cup SeqToSet(Tail(s))

Contains(s, x) == \E k \in 1..Len(s) : s[k] = x

(* the members of S in the order in which ord lists them: the order in    *)
(* which Python enumerates a dict, a set or the triples of an rdflib graph *)
InOrder(S, ord) == SelectSeq(ord, LAMBDA x : x \in S)

(* sorted(S): ascending str(entity), i.e. ascending number *)
(* A variant of the sort that puts the largest URI first *)
RECURSIVE DescendingSeq(_)
DescendingSeq(S) ==
    IF S = {} THEN << >>
    ELSE LET m == CHOOSE x \in S : \A y \in S : x >= y
         IN  <<m>> \o DescendingSeq(S \ {m})

RECURSIVE SortedSeq(_)
SortedSeq(S) ==
    IF S = {} THEN << >>
    ELSE LET m == CHOOSE x \in S : \A y \in S : x <= y
         IN  <<m>> \o SortedSeq(S \ {m})

(* ------------------------------------------- the oc_ocdm graph primitives *)
(* mark_as_to_be_deleted: every triple pointing to the entity is removed   *)
(* from every entity of the graph set, and the entity is flagged.          *)
DeleteRa(g, x) ==
    [g EXCEPT !.heldBy = [r \in Roles |-> IF g.heldBy[r] = x THEN NoneV ELSE g.heldBy[r]],
              !.delRa = @ \cup {x}]

DeleteAr(g, x) ==
    [g EXCEPT !.contrib = [d \in Docs |-> g.contrib[d] \ {x}],
              !.delAr = @ \cup {x}]

DeleteBr(g, x) ==
    [g EXCEPT !.partOf = [d \in Docs |-> IF g.partOf[d] = x THEN NoneV ELSE g.partOf[d]],
              !.delBr = @ \cup {x}]

DeleteId(g, x) ==
    [g EXCEPT !.idsRa = [a \in Agents |-> g.idsRa[a] \ {x}],
              !.idsAr = [r \in Roles |-> g.idsAr[r] \ {x}],
              !.idsBr = [d \in Docs |-> g.idsBr[d] \ {x}],
              !.delId = @ \cup {x}]

(* GraphEntity.merge, first half: the triples pointing to other are made   *)
(* to point to self.                                                       *)
RedirectRa(g, c, x) ==
    [g EXCEPT !.heldBy = [r \in Roles |-> IF g.heldBy[r] = x THEN c ELSE g.heldBy[r]]]

RedirectAr(g, c, x) ==
    [g EXCEPT !.contrib = [d \in Docs |->
                 IF x \in g.contrib[d] THEN (g.contrib[d] \ {x}) \cup {c} ELSE g.contrib[d]]]

RedirectBr(g, c, x) ==
    [g EXCEPT !.partOf = [d \in Docs |-> IF g.partOf[d] = x THEN c ELSE g.partOf[d]]]

Swap(S, c, x) == IF x \in S THEN (S \ {x}) \cup {c} ELSE S

RedirectId(g, c, x) ==
    [g EXCEPT !.idsRa = [a \in Agents |-> Swap(g.idsRa[a], c, x)],
              !.idsAr = [r \in Roles |-> Swap(g.idsAr[r], c, x)],
              !.idsBr = [d \in Docs |-> Swap(g.idsBr[d], c, x)]]

(* ResponsibleAgent.merge(other): redirect, delete other, then copy        *)
(* other's identifiers and names on self.                                  *)
MergeRa(g, c, x) ==
    LET g1 == DeleteRa(RedirectRa(g, c, x), x)
    IN  [g1 EXCEPT !.calls = Append(@, <<"ra", c, x>>),
                   !.idsRa[c] = @ \cup g1.idsRa[x],
                   !.given[c] = IF g1.given[x] # NoName THEN g1.given[x] ELSE @,
                   !.family[c] = IF g1.family[x] # NoName THEN g1.family[x] ELSE @]

(* AgentRole.merge(other): redirect, delete other, then copy other's       *)
(* identifiers, held agent and role type on self.                          *)
MergeAr(g, c, x) ==
    LET g1 == DeleteAr(RedirectAr(g, c, x), x)
    IN  [g1 EXCEPT !.calls = Append(@, <<"ar", c, x>>),
                   !.idsAr[c] = @ \cup g1.idsAr[x],
                   !.heldBy[c] = IF g1.heldBy[x] # NoneV THEN g1.heldBy[x] ELSE @,
                   !.roleType[c] = IF g1.roleType[x] # NoRole THEN g1.roleType[x] ELSE @]

(* BibliographicResource.merge(other): redirect, union of the types,       *)
(* delete other, then copy other's identifiers, container and              *)
(* contributors on self.                                                   *)
MergeBr(g, c, x) ==
    LET g0 == RedirectBr(g, c, x)
        g1 == DeleteBr([g0 EXCEPT !.types[c] = @ \cup g0.types[x]], x)
    IN  [g1 EXCEPT !.calls = Append(@, <<"br", c, x>>),
                   !.idsBr[c] = @ \cup g1.idsBr[x],
                   !.partOf[c] = IF g1.partOf[x] # NoneV THEN g1.partOf[x] ELSE @,
                   !.contrib[c] = @ \cup g1.contrib[x]]

(* Identifier.merge(other): redirect, delete other, copy scheme+literal.   *)
MergeId(g, c, x) ==
    LET g1 == DeleteId(RedirectId(g, c, x), x)
    IN  [g1 EXCEPT !.calls = Append(@, <<"id", c, x>>),
                   !.key[c] = IF g1.key[x] # NoneV THEN g1.key[x] ELSE @]

(* GraphSet.commit_changes: the entities flagged to be deleted lose every  *)
(* triple of their own and leave the graph set.                            *)
(* calls is the history of the calls made on the graph set:                *)
(* <<class, self, other>> for self.merge(other), <<"commit", 0, 0>>, the   *)
(* start of a pass, <<"save", 0, 0>>; chosen is the history of the         *)
(* clusters: <<class, entity_first, cluster>>.                             *)
CommitChanges(g) ==
    [ra |-> g.ra \ g.delRa, ar |-> g.ar \ g.delAr, br |-> g.br \ g.delBr, id |-> g.id \ g.delId,
     delRa |-> {}, delAr |-> {}, delBr |-> {}, delId |-> {},
     idsRa |-> [a \in Agents |-> IF a \in g.delRa THEN {} ELSE g.idsRa[a]],
     idsAr |-> [r \in Roles |-> IF r \in g.delAr THEN {} ELSE g.idsAr[r]],
     idsBr |-> [d \in Docs |-> IF d \in g.delBr THEN {} ELSE g.idsBr[d]],
     given |-> [a \in Agents |-> IF a \in g.delRa THEN NoName ELSE g.given[a]],
     family |-> [a \in Agents |-> IF a \in g.delRa THEN NoName ELSE g.family[a]],
     heldBy |-> [r \in Roles |-> IF r \in g.delAr THEN NoneV ELSE g.heldBy[r]],
     roleType |-> [r \in Roles |-> IF r \in g.delAr THEN NoRole ELSE g.roleType[r]],
     partOf |-> [d \in Docs |-> IF d \in g.delBr THEN NoneV ELSE g.partOf[d]],
     contrib |-> [d \in Docs |-> IF d \in g.delBr THEN {} ELSE g.contrib[d]],
     types |-> [d \in Docs |-> IF d \in g.delBr THEN {} ELSE g.types[d]],
     key |-> [i \in Ids |-> IF i \in g.delId THEN NoneV ELSE g.key[i]],
     calls |-> Append(g.calls, <<"commit", 0, 0>>),
     chosen |-> g.chosen]

(* ------------------------------------------------------- cluster builder *)
(* the (entity, identifier) pairs in the order of the two nested loops     *)
(* "for ra in get_ra(): for i in ra.get_identifiers()"                     *)
RECURSIVE ScanPairs(_, _, _)
ScanPairs(entSeq, idsOf, ordId) ==
    IF entSeq = << >> THEN << >>
    ELSE LET e == Head(entSeq)
             own == InOrder(idsOf[e], ordId)
         IN  [k \in 1..Len(own) |-> <<e, own[k]>>] \o ScanPairs(Tail(entSeq), idsOf, ordId)

(* the identifiers dict and merge_graph.add_edge: the first entity seen    *)
(* with a (scheme, literal) is kept for it, every later holder of the same *)
(* (scheme, literal) gets an edge to that first entity.                    *)
RECURSIVE ScanEdges(_, _, _, _)
ScanEdges(pairs, keyOf, identifiers, edges) ==
    IF pairs = << >> THEN edges
    ELSE LET e == Head(pairs)[1]
             k == keyOf[Head(pairs)[2]]
             first == identifiers[k]
         IN  IF first = NoneV
             THEN ScanEdges(Tail(pairs), keyOf, [identifiers EXCEPT ![k] = e], edges)
             ELSE ScanEdges(Tail(pairs), keyOf, identifiers, Append(edges, <<first, e>>))

(* the nodes of merge_graph in insertion order *)
RECURSIVE NodeSeq(_, _)
NodeSeq(edges, acc) ==
    IF edges = << >> THEN acc
    ELSE LET a == Head(edges)[1]
             b == Head(edges)[2]
             acc1 == IF Contains(acc, a) THEN acc ELSE Append(acc, a)
             acc2 == IF Contains(acc1, b) THEN acc1 ELSE Append(acc1, b)
         IN  NodeSeq(Tail(edges), acc2)

RECURSIVE Reach(_, _)
Reach(S, edges) ==
    LET T == S \cup { e[2] : e \in { f \in SeqToSet(edges) : f[1] \in S } }
               \cup { e[1] : e \in { f \in SeqToSet(edges) : f[2] \in S } }
    IN  IF T = S THEN S ELSE Reach(T, edges)

(* nx.connected_components: one component per not yet seen node, in node   *)
(* order                                                                   *)
RECURSIVE Components(_, _, _)
Components(nodes, edges, seen) ==
    IF nodes = << >> THEN << >>
    ELSE IF Head(nodes) \in seen THEN Components(Tail(nodes), edges, seen)
    ELSE LET c == Reach({Head(nodes)}, edges)
         IN  <<c>> \o Components(Tail(nodes), edges, seen \cup c)

(* sorted(..., key=len, reverse=True): stable, larger clusters first *)
RECURSIVE InsertBySize(_, _)
InsertBySize(sorted, c) ==
    IF sorted = << >> THEN <<c>>
    ELSE IF Cardinality(Head(sorted)) >= Cardinality(c)
         THEN <<Head(sorted)>> \o InsertBySize(Tail(sorted), c)
         ELSE <<c>> \o sorted

RECURSIVE SortBySize(_, _)
SortBySize(comps, acc) ==
    IF comps = << >> THEN acc ELSE SortBySize(Tail(comps), InsertBySize(acc, Head(comps)))

Clusters(entSeq, idsOf, keyOf, ordId) ==
    LET edges == ScanEdges(ScanPairs(entSeq, idsOf, ordId), keyOf,
                           [k \in Keys \cup {NoneV} |-> NoneV], << >>)
    IN  SortBySize(Components(NodeSeq(edges, << >>), edges, {}), << >>)

(* ------------------------------------------------------------ agent pass *)
(* __get_association_ar_ra: for every RA, the ARs held by it, in the order *)
(* of get_ar()                                                             *)
Association(g, ordAr) ==
    [a \in Agents |-> InOrder({r \in g.ar : g.heldBy[r] = a}, ordAr)]

(* A variant of the loop that unsets the holder of the roles and does not  *)
(* set the new one                                                         *)
RECURSIVE HoldNone(_, _, _)
HoldNone(g, ars, first) ==
    IF ars = << >> THEN g
    ELSE HoldNone([g EXCEPT !.heldBy[Head(ars)] = NoneV], Tail(ars), first)

(* "for ar in associated_ar_ra.get(other_entity): ar.is_held_by(entity_first)" *)
RECURSIVE HoldAll(_, _, _)
HoldAll(g, ars, first) ==
    IF ars = << >> THEN g
    ELSE HoldAll([g EXCEPT !.heldBy[Head(ars)] = first], Tail(ars), first)

(* one turn of "for entity in clusters_str_list[1:]" of instance_matching_ra *)
RaMergeOne(g, association, first, other) ==
    HoldAll(MergeRa(g, first, other), association[other], first)

(* ------------------------------------------------------ document pass *)
(* __get_part_of: the chain of containers of br, nearest first; the walk   *)
(* stops at the first BR without container.  fuel bounds the walk: a walk  *)
(* that has not ended after more steps than there are BRs is in a cycle.   *)
RECURSIVE PartOfWalk(_, _, _)
PartOfWalk(g, e, fuel) ==
    IF fuel = 0 \/ g.partOf[e] = NoneV THEN << >>
    ELSE <<g.partOf[e]>> \o PartOfWalk(g, g.partOf[e], fuel - 1)

GetPartOf(g, br) == PartOfWalk(g, br, MaxBr + 1)

(* the while loop of __get_part_of never ends *)
WalkHangs(g, br) == Len(PartOfWalk(g, br, MaxBr + 1)) = MaxBr + 1

(* __get_publisher: the first contributor AR of br with the publisher role, *)
(* None when there is none                                                  *)
GetPublisher(g, br, ordAr) ==
    LET pubs == InOrder({r \in g.contrib[br] : g.roleType[r] = Publisher}, ordAr)
    IN  IF pubs = << >> THEN NoneV ELSE Head(pubs)

(* A variant of the inner container loop that gives up when the two        *)
(* containers have no type in common                                       *)
RECURSIVE MergeInnerRaisesOnNoCommonType(_, _, _, _)
MergeInnerRaisesOnNoCommonType(st, p1, p1types, p2s) ==
    IF p2s = << >> \/ ~st.ok THEN st
    ELSE LET p2 == Head(p2s)
         IN  IF (st.g.types[p2] \ {Expression}) \cap p1types = {}
             THEN [st EXCEPT !.ok = FALSE]
             ELSE MergeInnerRaisesOnNoCommonType(
                     [st EXCEPT !.g = MergeBr(st.g, p1, p2)], p1, p1types, Tail(p2s))

(* "Merge containers": for p1 in entity_first_partofs, for p2 in partofs.  *)
(* list.remove raises ValueError when fabio:Expression is not among the    *)
(* types; ok = FALSE records that.  p1types is read once per p1.           *)
RECURSIVE MergeInner(_, _, _, _)
MergeInner(st, p1, p1types, p2s) ==
    IF p2s = << >> \/ ~st.ok THEN st
    ELSE LET p2 == Head(p2s)
             g == st.g
         IN  IF Expression \notin g.types[p2] THEN [st EXCEPT !.ok = FALSE]
             ELSE LET p2types == g.types[p2] \ {Expression}
                      g1 == IF (p2types \cap p1types) # {} THEN MergeBr(g, p1, p2) ELSE g
                  IN  MergeInner([st EXCEPT !.g = g1], p1, p1types, Tail(p2s))

RECURSIVE MergeContainers(_, _, _)
MergeContainers(st, p1s, p2s) ==
    IF p1s = << >> \/ ~st.ok THEN st
    ELSE LET p1 == Head(p1s)
         IN  IF Expression \notin st.g.types[p1] THEN [st EXCEPT !.ok = FALSE]
             ELSE MergeContainers(
                     MergeInner(st, p1, st.g.types[p1] \ {Expression}, p2s),
                     Tail(p1s), p2s)

(* "Merge publisher" *)
MergePublisher(g, publisherFirst, publisher) ==
    IF publisher # NoneV /\ publisherFirst # NoneV /\ publisher # publisherFirst
    THEN MergeAr(g, publisherFirst, publisher)
    ELSE g

(* entity_first.remove_contributor(ar) *)
RemoveContributor(g, br, ar) == [g EXCEPT !.contrib[br] = @ \ {ar}]

(* "[x for x in get_contributors() if x.get_role_type() != iri_publisher]" *)
NonPublishers(g, br) == {r \in g.contrib[br] : g.roleType[r] # Publisher}

(* "Dedupe by same RA": st = [g, am], am the set already_merged *)
SameRa(g, ar1, ar2) ==
    /\ ar1 # ar2
    /\ g.heldBy[ar1] # NoneV
    /\ g.heldBy[ar2] # NoneV
    /\ g.heldBy[ar1] = g.heldBy[ar2]

RECURSIVE DedupeInner(_, _, _, _)
DedupeInner(st, first, ar1, ar2s) ==
    IF ar2s = << >> THEN st
    ELSE LET ar2 == Head(ar2s)
             st1 == IF SameRa(st.g, ar1, ar2)
                    THEN [g |-> RemoveContributor(MergeAr(st.g, ar1, ar2), first, ar2),
                          am |-> st.am \cup {ar1, ar2}]
                    ELSE st
         IN  DedupeInner(st1, first, ar1, Tail(ar2s))

RECURSIVE DedupeOuter(_, _, _, _)
DedupeOuter(st, first, ar1s, all) ==
    IF ar1s = << >> THEN st
    ELSE DedupeOuter(DedupeInner(st, first, Head(ar1s), all), first, Tail(ar1s), all)

DedupeSameRa(g, first, ordAr) ==
    LET contributors == InOrder(NonPublishers(g, first), ordAr)
    IN  DedupeOuter([g |-> g, am |-> {}], first, contributors, contributors)

(* ---- names *)

Min2(a, b) == IF a <= b THEN a ELSE b

(* Levenshtein.distance *)
RECURSIVE Levenshtein(_, _)
Levenshtein(a, b) ==
    IF a = << >> THEN Len(b)
    ELSE IF b = << >> THEN Len(a)
    ELSE Min2(Min2(Levenshtein(Tail(a), b) + 1, Levenshtein(a, Tail(b)) + 1),
              Levenshtein(Tail(a), Tail(b)) + (IF Head(a) = Head(b) THEN 0 ELSE 1))

(* ar_name: "<given> " + "<family>" of the held RA, the parts that exist *)
ArName(g, ar) ==
    LET ra == g.heldBy[ar]
    IN  IF ra = NoneV THEN << >>
        ELSE (IF g.given[ra] # NoName THEN g.given[ra] \o <<" ">> ELSE << >>)
             \o (IF g.family[ra] # NoName THEN g.family[ra] ELSE << >>)

(* "name_similarity = 1 - Levenshtein.distance(...)" and                   *)
(* "ar1_name != '' and ar2_name != '' and name_similarity > 0.95",         *)
(* in hundredths                                                           *)
SimilarNames(n1, n2) ==
    /\ n1 # << >>
    /\ n2 # << >>
    /\ 100 * (1 - Levenshtein(n1, n2)) > 95

(* the name loop: ar1_name is read once per ar1, ar2_name at every turn *)
RECURSIVE NameInner(_, _, _, _, _)
NameInner(g, first, ar1, ar1name, ar2s) ==
    IF ar2s = << >> THEN g
    ELSE LET ar2 == Head(ar2s)
             g1 == IF SimilarNames(ar1name, ArName(g, ar2))
                   THEN RemoveContributor(MergeAr(g, ar1, ar2), first, ar2)
                   ELSE g
         IN  NameInner(g1, first, ar1, ar1name, Tail(ar2s))

RECURSIVE NameOuter(_, _, _, _)
NameOuter(g, first, ar1s, all) ==
    IF ar1s = << >> THEN g
    ELSE NameOuter(NameInner(g, first, Head(ar1s), ArName(g, Head(ar1s)), all),
                   first, Tail(ar1s), all)

DedupeSimilarNames(g, first, alreadyMerged, ordAr) ==
    LET contributors == InOrder(NonPublishers(g, first) \ alreadyMerged, ordAr)
    IN  NameOuter(g, first, contributors, contributors)

(* "Remove contributors without RA" *)
RemoveWithoutRa(g, first) ==
    [g EXCEPT !.contrib[first] = @ \ {r \in NonPublishers(g, first) : g.heldBy[r] = NoneV}]

(* A variant of the turn that adds a document to the graph set (add_br)    *)
(* for the merged pair                                                     *)
BrMergeOneAddsDocument(g, first, publisherFirst, firstPartofs, entity, ord) ==
    [g |-> [MergeBr(g, first, entity) EXCEPT !.br = @ \cup {MaxBr}], ok |-> TRUE]

(* one turn of "for entity in clusters_str_list[1:]" of                    *)
(* instance_matching_br, lines 209-297; [g, ok]                            *)
BrMergeOne(g, first, publisherFirst, firstPartofs, entity, ord) ==
    LET st == MergeContainers([g |-> g, ok |-> TRUE], firstPartofs, GetPartOf(g, entity))
        g1 == MergePublisher(st.g, publisherFirst, GetPublisher(st.g, entity, ord.ar))
        g2 == MergeBr(g1, first, entity)
        d  == DedupeSameRa(g2, first, ord.ar)
        g3 == DedupeSimilarNames(d.g, first, d.am, ord.ar)
    IN  IF st.ok THEN [g |-> RemoveWithoutRa(g3, first), ok |-> TRUE]
        ELSE st

(* ------------------------------------------------------- identifier pass *)
(* entities of the pass: <<"br", d>> then <<"ra", a>> *)
IdEntities(g, ord) ==
    LET brs == InOrder(g.br, ord.br)
        ras == InOrder(g.ra, ord.ra)
    IN  [k \in 1..Len(brs) |-> <<"br", brs[k]>>] \o [k \in 1..Len(ras) |-> <<"ra", ras[k]>>]

IdsOf(g, e) == IF e[1] = "br" THEN g.idsBr[e[2]] ELSE g.idsRa[e[2]]

RECURSIVE IdPairs(_, _, _)
IdPairs(g, ents, ordId) ==
    IF ents = << >> THEN << >>
    ELSE LET own == InOrder(IdsOf(g, Head(ents)), ordId)
         IN  [k \in 1..Len(own) |-> <<Head(ents), own[k]>>] \o IdPairs(g, Tail(ents), ordId)

(* lines 312-323: st = [l2i, i2r, keys]; keys is the insertion order of    *)
(* literal_to_id                                                           *)
RECURSIVE IdScan(_, _, _)
IdScan(g, pairs, st) ==
    IF pairs = << >> THEN st
    ELSE LET e == Head(pairs)[1]
             i == Head(pairs)[2]
             k == g.key[i]
         IN  IdScan(g, Tail(pairs),
                    [l2i  |-> [st.l2i EXCEPT ![k] = Append(@, i)],
                     i2r  |-> [st.i2r EXCEPT ![i] = Append(@, e)],
                     keys |-> IF Contains(st.keys, k) THEN st.keys ELSE Append(st.keys, k)])

(* "i.get_scheme() + '#' + i.get_literal_value()" raises TypeError on an   *)
(* identifier without scheme                                               *)
IdScanRaises(g, pairs) == \E n \in 1..Len(pairs) : g.key[pairs[n][2]] = NoneV

(* e.remove_identifier(actual_id); if v[0] not in e.get_identifiers():     *)
(* e.has_identifier(v[0])                                                  *)
Repoint(g, e, canon, actual) ==
    IF e[1] = "br"
    THEN [g EXCEPT !.idsBr[e[2]] = (@ \ {actual}) \cup {canon}]
    ELSE [g EXCEPT !.idsRa[e[2]] = (@ \ {actual}) \cup {canon}]

RECURSIVE RepointAll(_, _, _, _)
RepointAll(g, ents, canon, actual) ==
    IF ents = << >> THEN g
    ELSE RepointAll(Repoint(g, Head(ents), canon, actual), Tail(ents), canon, actual)

(* lines 331-342: "for actual_id in v[1:]" *)
RECURSIVE MergeGroup(_, _, _, _)
MergeGroup(g, canon, rest, i2r) ==
    IF rest = << >> THEN g
    ELSE LET actual == Head(rest)
             g1 == RepointAll(MergeId(g, canon, actual), i2r[actual], canon, actual)
         IN  MergeGroup(DeleteId(g1, actual), canon, Tail(rest), i2r)

(* lines 325-342 for one item (k, v) of literal_to_id *)
IdsMergeKey(g, v, i2r) ==
    IF Len(v) > 1 THEN MergeGroup(g, Head(v), Tail(v), i2r) ELSE g

(* ----------------------------------------------------------- the passes *)
(* instance_matching_ra, lines 94-156 *)
(* A variant of the member loop that stops after the first other member *)
RaMergeFirstMemberOnly(g, association, first, others) ==
    IF others = << >> THEN g
    ELSE RaMergeOne(g, association, first, Head(others))

RECURSIVE RaMergeMembers(_, _, _, _)
RaMergeMembers(g, association, first, others) ==
    IF others = << >> THEN g
    ELSE RaMergeMembers(RaMergeOne(g, association, first, Head(others)),
                        association, first, Tail(others))

RECURSIVE RaMergeClusters(_, _, _)
RaMergeClusters(g, association, clusters) ==
    IF clusters = << >> THEN g
    ELSE LET strList == SortedSeq(Head(clusters))
             g1 == [g EXCEPT !.chosen = Append(@, <<"ra", Head(strList), Head(clusters)>>)]
         IN  RaMergeClusters(RaMergeMembers(g1, association, Head(strList), Tail(strList)),
                             association, Tail(clusters))

RaClusters(g, ord) == Clusters(InOrder(g.ra, ord.ra), g.idsRa, g.key, ord.id)

Begin(g, pass) == [g EXCEPT !.calls = Append(@, <<pass, 0, 0>>)]

(* A variant of the agent pass that commits before it merges *)
InstanceMatchingRaCommitFirst(g, ord) ==
    RaMergeClusters(CommitChanges(Begin(g, "ra_pass")), Association(g, ord.ar),
                    RaClusters(g, ord))

InstanceMatchingRa(g, ord) ==
    CommitChanges(RaMergeClusters(Begin(g, "ra_pass"), Association(g, ord.ar),
                                  RaClusters(g, ord)))

(* instance_matching_br, lines 168-300; [g, status]: status is "ok",       *)
(* "hang" (a __get_part_of walk does not end) or "error" (an exception)    *)
RECURSIVE BrMergeMembers(_, _, _, _, _, _)
BrMergeMembers(st, first, publisherFirst, firstPartofs, others, ord) ==
    IF others = << >> \/ st.status # "ok" THEN st
    ELSE IF WalkHangs(st.g, Head(others)) THEN [st EXCEPT !.status = "hang"]
    ELSE LET r == BrMergeOne(st.g, first, publisherFirst, firstPartofs, Head(others), ord)
         IN  BrMergeMembers([g |-> r.g, status |-> IF r.ok THEN "ok" ELSE "error"],
                            first, publisherFirst, firstPartofs, Tail(others), ord)

RECURSIVE BrMergeClusters(_, _, _)
BrMergeClusters(st, clusters, ord) ==
    IF clusters = << >> \/ st.status # "ok" THEN st
    ELSE LET strList == SortedSeq(Head(clusters))
             first == Head(strList)
             st1 == [st EXCEPT !.g.chosen = Append(@, <<"br", first, Head(clusters)>>)]
         IN  IF WalkHangs(st.g, first) THEN [st1 EXCEPT !.status = "hang"]
             ELSE BrMergeClusters(
                     BrMergeMembers(st1, first, GetPublisher(st.g, first, ord.ar),
                                    GetPartOf(st.g, first), Tail(strList), ord),
                     Tail(clusters), ord)

BrClusters(g, ord) == Clusters(InOrder(g.br, ord.br), g.idsBr, g.key, ord.id)

InstanceMatchingBr(g, ord) ==
    LET st == BrMergeClusters([g |-> Begin(g, "br_pass"), status |-> "ok"],
                              BrClusters(g, ord), ord)
    IN  IF st.status = "ok" THEN [st EXCEPT !.g = CommitChanges(st.g)] ELSE st

(* instance_matching_ids, lines 306-345 *)
RECURSIVE IdsMergeKeys(_, _, _)
IdsMergeKeys(g, keys, idx) ==
    IF keys = << >> THEN g
    ELSE IdsMergeKeys(IdsMergeKey(g, idx.l2i[Head(keys)], idx.i2r), Tail(keys), idx)

IdIndex(g, ord) ==
    IdScan(g, IdPairs(g, IdEntities(g, ord), ord.id),
           [l2i |-> [k \in Keys |-> << >>], i2r |-> [i \in Ids |-> << >>], keys |-> << >>])

InstanceMatchingIds(g, ord) ==
    IF IdScanRaises(g, IdPairs(g, IdEntities(g, ord), ord.id))
    THEN [g |-> Begin(g, "ids_pass"), status |-> "error"]
    ELSE LET idx == IdIndex(g, ord)
         IN  [g |-> CommitChanges(IdsMergeKeys(Begin(g, "ids_pass"), idx.keys, idx)),
              status |-> "ok"]

(* ------------------------------------------------------ ORCID.__get_data *)
(* the response of requests.get: a status code with a text, or an          *)
(* exception (status 0)                                                    *)
MaxIteration == 3

Bodies == {"{}", "[]", "<html>"}

OtherStatuses == {500, 503}

Raisable == {"ReadTimeout", "ConnectTimeout", "ConnectionError"}

Responded(status, text) == [status |-> status, raised |-> "none", text |-> text]

Raised(exception) == [status |-> 0, raised |-> exception, text |-> ""]

(* json.loads(text) raises ValueError on a text that is no JSON document *)
Decodable(text) == text \in {"{}", "[]"}

JsonLoads(text) == <<"json", text>>

(* no call of __get_data is going on *)
NoCall ==
    [at |-> "none", max_iteration |-> 0, is_json |-> FALSE, tentative |-> 0,
     error_no_200 |-> FALSE, error_read |-> FALSE, error_connection |-> FALSE,
     error_generic |-> FALSE, errors |-> << >>, result |-> <<"unset">>,
     responses |-> << >>, sleeps |-> 0]

(* lines 600-605: the locals when the loop is first reached; responses is  *)
(* the history of the answers to requests.get, sleeps counts the calls of  *)
(* sleep(self.sec_to_wait)                                                 *)
GetDataStart(max_iteration, is_json) ==
    [NoCall EXCEPT !.at = "while", !.max_iteration = max_iteration, !.is_json = is_json]

Return(d, value) == [d EXCEPT !.at = "returned", !.result = value]

(* "except Exception", lines 641-645 *)
ExceptGeneric(d) ==
    [d EXCEPT !.at = "while", !.error_generic = TRUE,
              !.errors = IF d.error_generic THEN @ ELSE Append(@, "generic")]

(* A variant of the handling of a response that takes 404 for any other    *)
(* status                                                                  *)
HandleRetriesOn404(d, r) ==
    LET d1 == [d EXCEPT !.responses = Append(@, r)]
    IN  IF r.raised # "none" THEN ExceptGeneric(d1)
        ELSE IF r.status = 200
        THEN IF d1.is_json
             THEN IF Decodable(r.text) THEN Return(d1, JsonLoads(r.text))
                  ELSE ExceptGeneric(d1)
             ELSE Return(d1, <<"text", r.text>>)
        ELSE [d1 EXCEPT !.at = "while", !.error_no_200 = TRUE,
                        !.errors = Append(@, "http")]

(* lines 611-645: the try block on the response r of requests.get *)
Handle(d, r) ==
    LET d1 == [d EXCEPT !.responses = Append(@, r)]
    IN  IF r.raised = "ReadTimeout"
        THEN [d1 EXCEPT !.at = "while", !.error_read = TRUE,
                        !.errors = IF d.error_read THEN @ ELSE Append(@, "read")]
        ELSE IF r.raised = "ConnectTimeout"
        THEN [d1 EXCEPT !.at = "while", !.error_connection = TRUE,
                        !.errors = IF d.error_connection THEN @ ELSE Append(@, "connection")]
        ELSE IF r.raised # "none" THEN ExceptGeneric(d1)
        ELSE IF r.status = 200
        THEN IF d1.is_json
             THEN IF Decodable(r.text) THEN Return(d1, JsonLoads(r.text))
                  ELSE ExceptGeneric(d1)
             ELSE Return(d1, <<"text", r.text>>)
        ELSE LET d2 == [d1 EXCEPT !.error_no_200 = TRUE]
             IN  IF r.status = 404 THEN Return(d2, <<"None">>)
                 ELSE [d2 EXCEPT !.at = "while", !.errors = Append(@, "http")]

(* ------------------------------------------------------------- the state *)
VARIABLES
    gs,      \* self.g_set: the graph set
    ord,     \* the enumeration orders of the entities of each class
    pc,      \* the position of match(): "ra", "br", "ids", "save", "done",
             \* "hang" (a loop that never ends), "error" (an exception)
    input,   \* the graph set match() was called on
    runs,    \* the number of calls of match() that returned
    getData  \* the call of ORCID.__get_data: its parameters, its locals, its
             \* position ("none", "while", "get", "returned") and its result

vars == <<gs, ord, pc, input, runs, getData>>

EmptyGraph ==
    [ra |-> {}, ar |-> {}, br |-> {}, id |-> {},
     delRa |-> {}, delAr |-> {}, delBr |-> {}, delId |-> {},
     idsRa |-> [a \in Agents |-> {}],
     idsAr |-> [r \in Roles |-> {}],
     idsBr |-> [d \in Docs |-> {}],
     given |-> [a \in Agents |-> NoName],
     family |-> [a \in Agents |-> NoName],
     heldBy |-> [r \in Roles |-> NoneV],
     roleType |-> [r \in Roles |-> NoRole],
     partOf |-> [d \in Docs |-> NoneV],
     contrib |-> [d \in Docs |-> {}],
     types |-> [d \in Docs |-> {}],
     key |-> [i \in Ids |-> NoneV],
     calls |-> << >>,
     chosen |-> << >>]

(* the identifiers a graph refers to *)
OwnedIds(g) ==
    UNION ({g.idsRa[a] : a \in Agents} \cup {g.idsAr[r] : r \in Roles}
           \cup {g.idsBr[d] : d \in Docs})

(* the (scheme, literal) of identifier i of an input graph: identifiers    *)
(* 1, 3, .. carry key 1, identifiers 2, 4, .. key 2, and so on             *)
KeyOfInput(i) == ((i - 1) % MaxKey) + 1

Reversed(s) == [k \in 1..Len(s) |-> s[Len(s) + 1 - k]]

AscDesc(S) == {SortedSeq(S), Reversed(SortedSeq(S))}

(* ---------------------------------------------------------------- inputs *)
(* The input graph sets are drawn from five families.                      *)
SmallSets(S) == {T \in SUBSET S : Cardinality(T) <= 2}

Registered(g) == [g EXCEPT !.id = OwnedIds(g)]

(* 1. Agents holding identifiers: agent a holds, for every key k of ks[a]  *)
(*    (at most two), an identifier object of its own, number               *)
(*    (a - 1) * MaxKey + k; two author roles of document 1 are held by     *)
(*    agents; document 1 may have a twin, document 2, holding the same     *)
(*    identifier object MaxId; the agents and the identifiers are          *)
(*    enumerated in ascending or in descending order.                      *)
IdOf(a, k) == (a - 1) * MaxKey + k

AgentGraphs ==
    { Registered([EmptyGraph EXCEPT
          !.ra = Agents, !.ar = {1, 2}, !.br = IF twin THEN {1, 2} ELSE {1},
          !.idsRa = [a \in Agents |-> {IdOf(a, k) : k \in ks[a]}],
          !.idsBr = [d \in Docs |-> IF twin /\ d \in {1, 2} THEN {MaxId} ELSE {}],
          !.key = [i \in Ids |-> IF (\E a \in Agents : \E k \in ks[a] : i = IdOf(a, k))
                                    \/ (twin /\ i = MaxId)
                                 THEN KeyOfInput(i) ELSE NoneV],
          !.heldBy = [r \in Roles |-> IF r = 1 THEN h[1] ELSE IF r = 2 THEN h[2] ELSE NoneV],
          !.roleType = [r \in Roles |-> IF r \in {1, 2} THEN Author ELSE NoRole],
          !.contrib = [d \in Docs |-> IF d = 1 THEN {1, 2} ELSE {}],
          !.types = [d \in Docs |-> IF d = 1 \/ (twin /\ d = 2)
                                    THEN {Expression, Article} ELSE {}]])
      : ks \in [Agents -> SmallSets(Keys)],
        h \in {<<1, 2>>, <<2, 3>>, <<3, NoneV>>, <<2, 2>>},
        twin \in BOOLEAN }

InitAgents ==
    /\ gs \in AgentGraphs
    /\ ord \in { [ra |-> SortedSeq(Agents), ar |-> SortedSeq(Roles),
                  br |-> SortedSeq(Docs), id |-> SortedSeq(Ids)],
                 [ra |-> Reversed(SortedSeq(Agents)), ar |-> SortedSeq(Roles),
                  br |-> SortedSeq(Docs), id |-> Reversed(SortedSeq(Ids))] }

(* 2. Documents with containers: document d holds identifier d, with a key *)
(*    of its own; document 1 may hold identifier MaxBr + 1 as well, with   *)
(*    the last key; documents 1 and 2 are articles, document 3 an issue,   *)
(*    the others issues or volumes; an article may be part of a container, *)
(*    a container of a neighbouring one.                                   *)
Containers == Docs \ {1, 2}

PartOfs ==
    { po \in [Docs -> Docs \cup {NoneV}] :
        /\ po[1] \in Containers \cup {NoneV}
        /\ po[2] \in Containers \cup {NoneV}
        /\ \A d \in Containers : po[d] \in (Containers \cap {d - 1, d + 1}) \cup {NoneV}
        /\ \A d \in Containers : po[d] # NoneV => po[po[d]] = NoneV }

ContainerGraphs ==
    { Registered([EmptyGraph EXCEPT
          !.br = Docs,
          !.idsBr = [d \in Docs |-> {d} \cup (IF d = 1 /\ extra THEN {MaxBr + 1} ELSE {})],
          !.key = [i \in Ids |-> IF i \in Docs THEN kk[i]
                                 ELSE IF i = MaxBr + 1 /\ extra THEN MaxKey ELSE NoneV],
          !.partOf = po,
          !.types = [d \in Docs |-> IF d \in Containers THEN {Expression, ty[d]}
                                    ELSE {Expression, Article}]])
      : kk \in {k \in [Docs -> Keys] : k[1] = 1 /\ k[2] \in {1, MaxKey}},
        extra \in BOOLEAN,
        po \in PartOfs,
        ty \in {t \in [Containers -> {Issue, Volume}] : t[3] = Issue} }

InitContainers ==
    /\ gs \in ContainerGraphs
    /\ ord \in [ra : {SortedSeq(Agents)}, ar : {SortedSeq(Roles)},
                br : AscDesc(Docs), id : {SortedSeq(Ids)}]

(* 3. Two documents holding the same DOI in two identifier objects, with   *)
(*    contributors: roles 1 and 2 on document 1, roles 3 and 4 on          *)
(*    document 2, held by agents 1 and 2 or by none.                       *)
J == <<"j">>
D == <<"d">>
E == <<"e">>

RoleKinds ==
    { k \in [Roles -> {Author, Publisher, Editor, NoRole}] :
        /\ k[1] \in {Author, Publisher}
        /\ k[2] \in {Author, Editor, NoRole}
        /\ k[3] \in {Author, Publisher}
        /\ k[4] \in {Author, NoRole}
        /\ \A r \in Roles \ (1..4) : k[r] = NoRole }

ContributorGraphs ==
    { Registered([EmptyGraph EXCEPT
          !.ra = {1, 2}, !.br = {1, 2},
          !.ar = {r \in Roles : kinds[r] # NoRole},
          !.idsBr = [d \in Docs |-> IF d \in {1, 2} THEN {d} ELSE {}],
          !.key = [i \in Ids |-> IF i \in {1, 2} THEN 1 ELSE NoneV],
          !.given = [a \in Agents |-> IF a \in {1, 2} THEN nm[a][1] ELSE NoName],
          !.family = [a \in Agents |-> IF a \in {1, 2} THEN nm[a][2] ELSE NoName],
          !.heldBy = [r \in Roles |-> IF kinds[r] # NoRole THEN h[r] ELSE NoneV],
          !.roleType = kinds,
          !.contrib = [d \in Docs |->
                          IF d = 1 THEN {r \in {1, 2} : kinds[r] # NoRole}
                          ELSE IF d = 2 THEN {r \in {3, 4} : kinds[r] # NoRole} ELSE {}],
          !.types = [d \in Docs |-> IF d \in {1, 2} THEN {Expression, Article} ELSE {}]])
      : kinds \in RoleKinds,
        h \in [Roles -> {NoneV, 1, 2}],
        nm \in [{1, 2} -> {<<J, D>>, <<J, E>>, <<NoName, D>>, <<NoName, NoName>>}] }

InitContributors ==
    /\ gs \in ContributorGraphs
    /\ ord \in [ra : {SortedSeq(Agents)}, ar : AscDesc(Roles),
                br : {SortedSeq(Docs)}, id : {SortedSeq(Ids)}]

(* 4. One document, one agent and one role (an author of the document,     *)
(*    held by the agent), each holding any of the identifier objects       *)
(*    1 .. 2 * MaxKey; all of these identifiers are in the graph set,      *)
(*    held or not.                                                         *)
SharedIds == 1..(2 * MaxKey)

IdentifierGraphs ==
    { [EmptyGraph EXCEPT
          !.ra = {1}, !.ar = {1}, !.br = {1}, !.id = SharedIds,
          !.idsRa = [a \in Agents |-> IF a = 1 THEN ia ELSE {}],
          !.idsAr = [r \in Roles |-> IF r = 1 THEN ir ELSE {}],
          !.idsBr = [d \in Docs |-> IF d = 1 THEN ib ELSE {}],
          !.key = [i \in Ids |-> IF i \in SharedIds THEN KeyOfInput(i) ELSE NoneV],
          !.heldBy = [r \in Roles |-> IF r = 1 THEN 1 ELSE NoneV],
          !.roleType = [r \in Roles |-> IF r = 1 THEN Author ELSE NoRole],
          !.contrib = [d \in Docs |-> IF d = 1 THEN {1} ELSE {}],
          !.types = [d \in Docs |-> IF d = 1 THEN {Expression, Article} ELSE {}]]
      : ia \in SmallSets(SharedIds), ir \in SmallSets(SharedIds),
        ib \in SmallSets(SharedIds) }

InitIdentifiers ==
    /\ gs \in IdentifierGraphs
    /\ ord \in [ra : {SortedSeq(Agents)}, ar : {SortedSeq(Roles)},
                br : {SortedSeq(Docs)}, id : AscDesc(Ids)]

(* 5. Documents whose containers were created before them, as the test     *)
(*    graph creates the volume, the issue and then the paper: document 1   *)
(*    is an article, document 2 an issue, document 3 an article or an      *)
(*    issue, document 4 an issue or a volume; document 1 may be part of    *)
(*    document 2, document 3 of document 2 or 4; document d holds          *)
(*    identifier d, with a key of its own; document 3 may have an author   *)
(*    role, role 1, held by no agent.                                      *)
HierarchyDocs == Docs \cap (1..4)

HierarchyGraphs ==
    { Registered([EmptyGraph EXCEPT
          !.br = HierarchyDocs,
          !.idsBr = [d \in Docs |-> IF d \in HierarchyDocs THEN {d} ELSE {}],
          !.key = [i \in Ids |-> IF i \in HierarchyDocs THEN kk[i] ELSE NoneV],
          !.partOf = [d \in Docs |-> IF d = 1 THEN p1 ELSE IF d = 3 THEN p3 ELSE NoneV],
          !.ar = IF withRole THEN {1} ELSE {},
          !.contrib = [d \in Docs |-> IF d = 3 /\ withRole THEN {1} ELSE {}],
          !.roleType = [r \in Roles |-> IF r = 1 /\ withRole THEN Author ELSE NoRole],
          !.types = [d \in Docs |-> IF d = 1 THEN {Expression, Article}
                                    ELSE IF d = 2 THEN {Expression, Issue}
                                    ELSE IF d = 3 THEN {Expression, t3}
                                    ELSE IF d \in HierarchyDocs THEN {Expression, t4}
                                    ELSE {}]])
      : kk \in {k \in [HierarchyDocs -> Keys] : k[1] = 1},
        p1 \in {NoneV, 2}, p3 \in {NoneV, 2, 4},
        t3 \in {Article, Issue}, t4 \in {Issue, Volume}, withRole \in BOOLEAN }

InitHierarchy ==
    /\ gs \in HierarchyGraphs
    /\ ord \in [ra : {SortedSeq(Agents)}, ar : {SortedSeq(Roles)},
                br : AscDesc(Docs), id : {SortedSeq(Ids)}]

Init ==
    /\ \/ InitAgents
       \/ InitContainers
       \/ InitContributors
       \/ InitIdentifiers
       \/ InitHierarchy
    /\ pc = "ra"
    /\ input = gs
    /\ runs = 0
    /\ getData = NoCall

(* --------------------------------------------------------------- actions *)
(* match(), line 65 *)
RaPass ==
    /\ pc = "ra"
    /\ gs' = InstanceMatchingRa(gs, ord)
    /\ pc' = "br"
    /\ UNCHANGED <<ord, input, runs, getData>>

(* match(), line 66 *)
BrPass ==
    /\ pc = "br"
    /\ LET r == InstanceMatchingBr(gs, ord)
       IN  /\ gs' = r.g
           /\ pc' = IF r.status = "ok" THEN "ids" ELSE r.status
    /\ UNCHANGED <<ord, input, runs, getData>>

(* match(), line 67 *)
IdsPass ==
    /\ pc = "ids"
    /\ LET r == InstanceMatchingIds(gs, ord)
       IN  /\ gs' = r.g
           /\ pc' = IF r.status = "ok" THEN "save" ELSE r.status
    /\ UNCHANGED <<ord, input, runs, getData>>

(* save(), lines 71-79: writes the graph set and the provenance to files  *)
(* and changes neither                                                     *)
SaveGraphs(g) == [g EXCEPT !.calls = Append(@, <<"save", 0, 0>>)]

(* match(), lines 65-69, as one function of the graph set: [g, status] *)
Match(g, o) ==
    LET g1 == InstanceMatchingRa(g, o)
        r2 == InstanceMatchingBr(g1, o)
        r3 == InstanceMatchingIds(r2.g, o)
    IN  IF r2.status # "ok" THEN r2
        ELSE IF r3.status # "ok" THEN r3
        ELSE [g |-> SaveGraphs(r3.g), status |-> "ok"]

(* match(), lines 68-69 *)
Save ==
    /\ pc = "save"
    /\ gs' = SaveGraphs(gs)
    /\ pc' = "done"
    /\ runs' = runs + 1
    /\ UNCHANGED <<ord, input, getData>>

Next == RaPass \/ BrPass \/ IdsPass \/ Save

Spec == Init /\ [][Next]_vars

(* match() called again on the graph set it returned *)
MaxRuns == 2

MatchAgain ==
    /\ pc = "done"
    /\ runs < MaxRuns
    /\ pc' = "ra"
    /\ input' = gs
    /\ UNCHANGED <<gs, ord, runs, getData>>

NextTwice == Next \/ MatchAgain

SpecTwice == Init /\ [][NextTwice]_vars

(* ------------------------------------------- a call of ORCID.__get_data *)
(* the call starts with max_iteration and is_json as the constructor set   *)
(* them (lines 419-434); match() is not running                            *)
InitGetData ==
    /\ gs = EmptyGraph
    /\ ord = [ra |-> SortedSeq(Agents), ar |-> SortedSeq(Roles),
              br |-> SortedSeq(Docs), id |-> SortedSeq(Ids)]
    /\ pc = "none"
    /\ input = gs
    /\ runs = 0
    /\ getData \in {GetDataStart(m, j) : m \in 0..MaxIteration, j \in BOOLEAN}

(* lines 606-609: the loop test, the sleep before a retry, the count *)
Iterate ==
    /\ getData.at = "while"
    /\ getData.tentative < getData.max_iteration
    /\ getData' = [getData EXCEPT !.sleeps = IF getData.tentative # 0 THEN @ + 1 ELSE @,
                                  !.tentative = @ + 1,
                                  !.at = "get"]
    /\ UNCHANGED <<gs, ord, pc, input, runs>>

(* line 612 and the try block, for each answer requests.get can give *)
Respond200 ==
    /\ getData.at = "get"
    /\ \E text \in Bodies : getData' = Handle(getData, Responded(200, text))
    /\ UNCHANGED <<gs, ord, pc, input, runs>>

Respond404 ==
    /\ getData.at = "get"
    /\ getData' = Handle(getData, Responded(404, ""))
    /\ UNCHANGED <<gs, ord, pc, input, runs>>

RespondOther ==
    /\ getData.at = "get"
    /\ \E status \in OtherStatuses : getData' = Handle(getData, Responded(status, ""))
    /\ UNCHANGED <<gs, ord, pc, input, runs>>

Raise ==
    /\ getData.at = "get"
    /\ \E exception \in Raisable : getData' = Handle(getData, Raised(exception))
    /\ UNCHANGED <<gs, ord, pc, input, runs>>

(* lines 647-648: the loop has ended, the errors are printed and the       *)
(* method returns None                                                     *)
GiveUp ==
    /\ getData.at = "while"
    /\ getData.tentative >= getData.max_iteration
    /\ getData' = Return(getData, <<"None">>)
    /\ UNCHANGED <<gs, ord, pc, input, runs>>

NextGetData == Iterate \/ Respond200 \/ Respond404 \/ RespondOther \/ Raise \/ GiveUp

(* requests.get is called with timeout=self.timeout and so answers or      *)
(* raises, sleep returns: a step that can be taken is taken                *)
SpecGetData == InitGetData /\ [][NextGetData]_vars /\ WF_vars(NextGetData)

(* ---------------------------------------------------------------- claims *)
(* The live entities of a graph set: registered and not to be deleted *)
LiveRa(g) == g.ra \ g.delRa
LiveAr(g) == g.ar \ g.delAr
LiveBr(g) == g.br \ g.delBr
LiveId(g) == g.id \ g.delId

(* The (scheme, literal) pairs carried by a set of identifier objects *)
PairsOf(g, S) == {g.key[i] : i \in S} \ {NoneV}

(* A merge call of one entity into a different one *)
IsMerge(c) == c[1] \in {"ra", "ar", "br", "id"}

MergedInto(g, cls) == {k \in DOMAIN g.calls : g.calls[k][1] = cls /\ g.calls[k][2] # g.calls[k][3]}

(* C1: when match() has returned, no two distinct live agents hold         *)
(* identifiers with the same (scheme, literal) pair.                       *)
C1_AgentsShareNoPair ==
    pc = "done" =>
        \A a, b \in LiveRa(gs) :
            a # b => PairsOf(gs, gs.idsRa[a]) \cap PairsOf(gs, gs.idsRa[b]) = {}

(* C1 witness: a finished run in which agents were merged and two live     *)
(* agents, each holding an identifier, remain.                             *)
C1_Witness ==
    /\ pc = "done"
    /\ MergedInto(gs, "ra") # {}
    /\ \E a, b \in LiveRa(gs) :
          /\ a # b
          /\ PairsOf(gs, gs.idsRa[a]) # {}
          /\ PairsOf(gs, gs.idsRa[b]) # {}

(* C2: when match() has returned, no two distinct live documents hold      *)
(* identifiers with the same (scheme, literal) pair, documents merged as   *)
(* containers included.                                                    *)
C2_DocumentsShareNoPair ==
    pc = "done" =>
        \A a, b \in LiveBr(gs) :
            a # b => PairsOf(gs, gs.idsBr[a]) \cap PairsOf(gs, gs.idsBr[b]) = {}

(* C3: when match() has returned, no two distinct live identifier objects  *)
(* of the graph set carry the same (scheme, literal) pair, whichever       *)
(* entity holds them or none does.                                         *)
C3_IdentifiersUnique ==
    pc = "done" =>
        \A i, j \in LiveId(gs) :
            (i # j /\ gs.key[i] # NoneV) => gs.key[i] # gs.key[j]

(* C4: when match() has returned, every live document has at most one     *)
(* live contributor role for each (role kind, holder) combination, the     *)
(* publisher kind included, merged or not.                                 *)
C4_OneRolePerKindAndHolder ==
    pc = "done" =>
        \A d \in LiveBr(gs) :
            \A r, q \in gs.contrib[d] \cap LiveAr(gs) :
                r # q => <<gs.roleType[r], gs.heldBy[r]>> # <<gs.roleType[q], gs.heldBy[q]>>

(* The graph set as a pass leaves it *)
PassEnd == pc \in {"br", "ids", "save", "done"}

(* C5: at the end of each pass, every held_by, part_of and identifier      *)
(* reference of a live entity points to a live entity.                     *)
C5_ReferencesLive ==
    PassEnd =>
        /\ \A r \in LiveAr(gs) : gs.heldBy[r] \in LiveRa(gs) \cup {NoneV}
        /\ \A d \in LiveBr(gs) : gs.partOf[d] \in LiveBr(gs) \cup {NoneV}
        /\ \A d \in LiveBr(gs) : gs.idsBr[d] \subseteq LiveId(gs)
        /\ \A a \in LiveRa(gs) : gs.idsRa[a] \subseteq LiveId(gs)
        /\ \A r \in LiveAr(gs) : gs.idsAr[r] \subseteq LiveId(gs)

(* The graph set without the histories *)
View(g) == [g EXCEPT !.calls = << >>, !.chosen = << >>]

(* The calls and the clusters of the current call of match(), when it is   *)
(* not the first: input is the graph set the previous call returned.       *)
LaterRun == runs >= 1 /\ ~(runs = 1 /\ pc = "done")

NewCalls == SubSeq(gs.calls, Len(input.calls) + 1, Len(gs.calls))

NewChosen == SubSeq(gs.chosen, Len(input.chosen) + 1, Len(gs.chosen))

(* C6: a second match() on the result of a first one performs no merge,    *)
(* finds only singleton clusters, ends, and leaves the live entities and   *)
(* their references as the first run left them.                            *)
C6_SecondRunChangesNothing ==
    LaterRun =>
        /\ \A k \in DOMAIN NewCalls : ~IsMerge(NewCalls[k])
        /\ \A k \in DOMAIN NewChosen : Cardinality(NewChosen[k][3]) = 1
        /\ pc \notin {"hang", "error"}
        /\ pc = "done" => View(gs) = View(input)

(* The scenario of C7 as an input graph: documents 1 and 2 hold distinct   *)
(* identifier objects with the same pair, each has one author role, the    *)
(* two roles are held by distinct agents with the same given and family    *)
(* name.                                                                   *)
ExampleInput ==
    /\ runs <= 1
    /\ input.br = {1, 2} /\ input.ar = {1, 3} /\ input.ra = {1, 2}
    /\ input.idsBr[1] = {1} /\ input.idsBr[2] = {2}
    /\ input.key[1] = input.key[2] /\ input.key[1] # NoneV
    /\ input.contrib[1] = {1} /\ input.contrib[2] = {3}
    /\ input.roleType[1] = Author /\ input.roleType[3] = Author
    /\ input.heldBy[1] = 1 /\ input.heldBy[3] = 2
    /\ input.given[1] = J /\ input.given[2] = J
    /\ input.family[1] = D /\ input.family[2] = D

(* C7: on the example input, match() leaves exactly one live document (the *)
(* one with the smaller URI), with exactly one author role, and exactly    *)
(* one live identifier object with the shared pair.                        *)
C7_ExampleOutcome ==
    (ExampleInput /\ pc = "done") =>
        /\ LiveBr(gs) = {1}
        /\ Cardinality({r \in gs.contrib[1] \cap LiveAr(gs) : gs.roleType[r] = Author}) = 1
        /\ Cardinality({i \in LiveId(gs) : gs.key[i] = input.key[1]}) = 1

(* C8: in the agent pass and in the document pass, the entity chosen for a *)
(* cluster is the member with the smallest URI, and when the pass is over  *)
(* every other member of the cluster has been merged into it.              *)
C8_SmallestMemberSurvives ==
    \A k \in DOMAIN gs.chosen :
        LET cls     == gs.chosen[k][1]
            first   == gs.chosen[k][2]
            cluster == gs.chosen[k][3]
        IN  /\ first \in cluster
            /\ \A x \in cluster : first <= x
            /\ pc \notin {"hang", "error"} =>
                   \A x \in cluster \ {first} : Contains(gs.calls, <<cls, first, x>>)

(* C8 witness: a finished run with a cluster of three agents whose         *)
(* smallest member was not the first one enumerated, and a cluster of      *)
(* documents.                                                              *)
C8_Witness ==
    /\ pc = "done"
    /\ \E k \in DOMAIN gs.chosen :
          /\ Cardinality(gs.chosen[k][3]) >= 3
          /\ gs.chosen[k][1] = "ra"
          /\ ord.ra[1] \in gs.chosen[k][3]
          /\ ord.ra[1] # gs.chosen[k][2]
    /\ \E k \in DOMAIN gs.chosen :
          /\ Cardinality(gs.chosen[k][3]) >= 2
          /\ gs.chosen[k][1] = "br"

(* The enumeration orders that follow the URIs *)
Ascending ==
    [ra |-> SortedSeq(Agents), ar |-> SortedSeq(Roles),
     br |-> SortedSeq(Docs), id |-> SortedSeq(Ids)]

(* The live agents, roles and documents and their references, the          *)
(* identifiers by their pairs                                              *)
Outcome(g) ==
    [ra |-> LiveRa(g), ar |-> LiveAr(g), br |-> LiveBr(g),
     heldBy |-> [r \in LiveAr(g) |-> g.heldBy[r]],
     partOf |-> [d \in LiveBr(g) |-> g.partOf[d]],
     contrib |-> [d \in LiveBr(g) |-> g.contrib[d]],
     pairsRa |-> [a \in LiveRa(g) |-> PairsOf(g, g.idsRa[a] \cap LiveId(g))],
     pairsBr |-> [d \in LiveBr(g) |-> PairsOf(g, g.idsBr[d] \cap LiveId(g))]]

(* C9: for a fixed input graph, match() ends the same way and with the     *)
(* same live entities and references under every enumeration order as      *)
(* under the ascending one.                                                *)
C9_OrderIndependent ==
    (runs <= 1 /\ pc \in {"done", "hang", "error"}) =>
        LET r == Match(input, Ascending)
        IN  /\ r.status = (IF pc = "done" THEN "ok" ELSE pc)
            /\ pc = "done" => Outcome(r.g) = Outcome(gs)

(* The calls other than merges: the starts of the passes, the commits and  *)
(* the save                                                                *)
Events == SelectSeq(gs.calls, LAMBDA c : ~IsMerge(c))

Expected ==
    << <<"ra_pass", 0, 0>>, <<"commit", 0, 0>>, <<"br_pass", 0, 0>>, <<"commit", 0, 0>>,
       <<"ids_pass", 0, 0>>, <<"commit", 0, 0>>, <<"save", 0, 0>> >>

PassOf(cls) == IF cls = "ra" THEN "ra_pass" ELSE IF cls = "id" THEN "ids_pass" ELSE "br_pass"

(* the last call before position k of the calls that is not a merge *)
LastEvent(k) ==
    LET S == {j \in 1..k : ~IsMerge(gs.calls[j])}
    IN  IF S = {} THEN "none" ELSE gs.calls[CHOOSE j \in S : \A i \in S : i <= j][1]

(* C10: match() runs the agent pass, the document pass, the identifier     *)
(* pass and save in this order; each pass commits exactly once, as its     *)
(* last step, so that every merge of a pass lies between the start of the  *)
(* pass and its commit, and the identifier merges come after all the       *)
(* entity merges of the run.                                               *)
C10_PassOrder ==
    /\ \A k \in DOMAIN Events : Events[k] = Expected[((k - 1) % Len(Expected)) + 1]
    /\ \A k \in DOMAIN gs.calls :
          IsMerge(gs.calls[k]) => LastEvent(k) = PassOf(gs.calls[k][1])
    /\ pc = "br" => Len(Events) % Len(Expected) = 2
    /\ pc = "ids" => Len(Events) % Len(Expected) = 4
    /\ pc = "save" => Len(Events) % Len(Expected) = 6
    /\ pc = "done" => Len(Events) = Len(Expected) * runs

(* C10 witness: a finished run that merged agents, documents, roles and    *)
(* identifiers.                                                            *)
C10_Witness ==
    /\ pc = "done"
    /\ MergedInto(gs, "ra") # {}
    /\ MergedInto(gs, "br") # {}
    /\ MergedInto(gs, "id") # {}
    /\ \E k \in DOMAIN gs.calls : gs.calls[k][1] = "ar"

(* C11: when match() has returned, every live role is a contributor of at  *)
(* least one live document; a role the document pass removed from a        *)
(* contributor list does not stay live.                                    *)
C11_NoOrphanRole ==
    pc = "done" =>
        \A r \in LiveAr(gs) : \E d \in LiveBr(gs) : r \in gs.contrib[d]

(* The document pass of the first call of match() has ended *)
AfterBrPass == (runs = 0 /\ pc \in {"ids", "save"}) \/ (runs = 1 /\ pc = "done")

(* The members of the document clusters other than the chosen one *)
AbsorbedBr ==
    UNION { gs.chosen[k][3] \ {gs.chosen[k][2]} :
              k \in {j \in DOMAIN gs.chosen : gs.chosen[j][1] = "br"} }

(* C12: when the document pass has ended, every member of a document       *)
(* cluster other than the chosen one has left the graph set, no live       *)
(* document is part of it and it has no contributors.                      *)
C12_AbsorbedDocumentGone ==
    AfterBrPass =>
        \A x \in AbsorbedBr :
            /\ x \notin LiveBr(gs)
            /\ \A d \in LiveBr(gs) : gs.partOf[d] # x
            /\ gs.contrib[x] = {}

(* C13: in every state of a call of match(), the agents and the documents  *)
(* of the graph set, live or to be deleted, are agents and documents of    *)
(* the graph set match() was called on.                                    *)
C13_NothingCreated ==
    /\ gs.ra \subseteq input.ra
    /\ gs.br \subseteq input.br

(* C13 witness: a finished run that merged agents and documents and left   *)
(* fewer of both than the input had.                                       *)
C13_Witness ==
    /\ pc = "done" /\ runs = 1
    /\ LiveRa(gs) # input.ra /\ LiveRa(gs) # {}
    /\ LiveBr(gs) # input.br /\ LiveBr(gs) # {}

(* The agent pass of the current call of match() has just ended *)
AfterRaPass == pc = "br"

(* The members of the agent clusters of the current call other than the    *)
(* chosen one                                                              *)
RaChosen ==
    {k \in DOMAIN gs.chosen : k > Len(input.chosen) /\ gs.chosen[k][1] = "ra"}

AbsorbedRa == UNION {gs.chosen[k][3] \ {gs.chosen[k][2]} : k \in RaChosen}

(* C14: when the agent pass has ended, every role that an absorbed agent   *)
(* held when the pass began is held by the agent chosen for the cluster,   *)
(* the absorbed agent has left the graph set, and every role held by an    *)
(* agent that was not absorbed is held as before.                          *)
C14_RolesFollowAgent ==
    AfterRaPass =>
        /\ \A k \in RaChosen : \A x \in gs.chosen[k][3] \ {gs.chosen[k][2]} :
              /\ x \notin LiveRa(gs)
              /\ \A r \in input.ar : input.heldBy[r] = x => gs.heldBy[r] = gs.chosen[k][2]
        /\ \A r \in input.ar :
              input.heldBy[r] \notin AbsorbedRa => gs.heldBy[r] = input.heldBy[r]

(* C14 witness: the agent pass has ended, an absorbed agent held a role    *)
(* and an agent outside every cluster held another.                        *)
C14_Witness ==
    /\ AfterRaPass
    /\ \E r \in input.ar : input.heldBy[r] \in AbsorbedRa
    /\ \E r \in input.ar :
          /\ input.heldBy[r] # NoneV
          /\ \A k \in RaChosen : input.heldBy[r] \notin gs.chosen[k][3]

(* C15: no call of merge has the same entity as self and as other, in any  *)
(* pass and for any class of entity.                                       *)
C15_NoSelfMerge ==
    \A k \in DOMAIN gs.calls : IsMerge(gs.calls[k]) => gs.calls[k][2] # gs.calls[k][3]

(* ---- the turns of the document pass                                     *)
(* One turn of the loop over the members of a document cluster, stage by   *)
(* stage: pre is the graph set when the turn begins, containers after      *)
(* "Merge containers", publishers after "Merge publisher", merged after    *)
(* entity_first.merge(entity), deduped after "Dedupe by same RA", named    *)
(* after the name loop, post after "Remove contributors without RA".       *)
TurnOf(g, first, publisherFirst, firstPartofs, entity, o) ==
    LET st == MergeContainers([g |-> g, ok |-> TRUE], firstPartofs, GetPartOf(g, entity))
        publisher == GetPublisher(st.g, entity, o.ar)
        g1 == MergePublisher(st.g, publisherFirst, publisher)
        g2 == MergeBr(g1, first, entity)
        d  == DedupeSameRa(g2, first, o.ar)
        g3 == DedupeSimilarNames(d.g, first, d.am, o.ar)
    IN  [first |-> first, entity |-> entity, ok |-> st.ok,
         firstPartofs |-> firstPartofs, partofs |-> GetPartOf(g, entity),
         publisherFirst |-> publisherFirst, publisher |-> publisher,
         pre |-> g, containers |-> st.g, publishers |-> g1, merged |-> g2,
         deduped |-> d.g, alreadyMerged |-> d.am, named |-> g3,
         post |-> BrMergeOne(g, first, publisherFirst, firstPartofs, entity, o).g]

(* The turns of the member loop of one cluster, as BrMergeMembers runs them *)
RECURSIVE TurnsOfMembers(_, _, _, _, _, _)
TurnsOfMembers(st, first, publisherFirst, firstPartofs, others, o) ==
    IF others = << >> \/ st.status # "ok" THEN st
    ELSE IF WalkHangs(st.g, Head(others)) THEN [st EXCEPT !.status = "hang"]
    ELSE LET t == TurnOf(st.g, first, publisherFirst, firstPartofs, Head(others), o)
         IN  TurnsOfMembers([g |-> t.post, status |-> IF t.ok THEN "ok" ELSE "error",
                             turns |-> Append(st.turns, t)],
                            first, publisherFirst, firstPartofs, Tail(others), o)

(* The turns of all the clusters, as BrMergeClusters runs them *)
RECURSIVE TurnsOfClusters(_, _, _)
TurnsOfClusters(st, clusters, o) ==
    IF clusters = << >> \/ st.status # "ok" THEN st
    ELSE LET strList == SortedSeq(Head(clusters))
             first == Head(strList)
             st1 == [st EXCEPT !.g.chosen = Append(@, <<"br", first, Head(clusters)>>)]
         IN  IF WalkHangs(st.g, first) THEN [st1 EXCEPT !.status = "hang"]
             ELSE TurnsOfClusters(
                     TurnsOfMembers(st1, first, GetPublisher(st.g, first, o.ar),
                                    GetPartOf(st.g, first), Tail(strList), o),
                     Tail(clusters), o)

BrTurns(g, o) ==
    TurnsOfClusters([g |-> Begin(g, "br_pass"), status |-> "ok", turns |-> << >>],
                    BrClusters(g, o), o)

(* The document pass of the current call of match() has run: gs is what it *)
(* left, and Turns are its turns, from the graph set the agent pass left.  *)
BrPassRan == pc \in {"ids", "hang", "error"}

Turns == BrTurns(InstanceMatchingRa(input, ord), ord).turns

(* the calls of merge made between two stages of a turn *)
CallsBetween(a, b) == SubSeq(b.calls, Len(a.calls) + 1, Len(b.calls))

(* the type tags of a document without the generic one *)
TagsOf(g, d) == g.types[d] \ {Expression}

(* the merges of containers of a turn *)
ContainerCalls(t) == SeqToSet(CallsBetween(t.pre, t.containers))

(* C16: in every turn of the document pass, a container of the absorbed    *)
(* document is merged into a different container of the chosen document if *)
(* and only if their type tags, fabio:Expression left out, intersect; the  *)
(* containers are those of the part_of chains when the turn begins.        *)
C16_ContainersMergedByType ==
    BrPassRan =>
        \A k \in DOMAIN Turns :
            LET t == Turns[k]
                ancC == SeqToSet(GetPartOf(t.pre, t.first))
                ancX == SeqToSet(GetPartOf(t.pre, t.entity))
            IN  /\ \A p1 \in ancC : \A p2 \in ancX \ {p1} :
                      <<"br", p1, p2>> \in ContainerCalls(t)
                          <=> TagsOf(t.pre, p1) \cap TagsOf(t.pre, p2) # {}
                /\ \A c \in ContainerCalls(t) :
                      c[2] # c[3] =>
                          /\ c[2] \in ancC /\ c[3] \in ancX
                          /\ TagsOf(t.pre, c[2]) \cap TagsOf(t.pre, c[3]) # {}

(* the merges of the "Merge publisher" step of a turn *)
PublisherCalls(t) == SeqToSet(CallsBetween(t.containers, t.publishers))

(* the agent holding the publisher role p of a turn, None when there is no *)
(* such role                                                               *)
PublisherAgent(t, p) == IF p = NoneV THEN NoneV ELSE t.pre.heldBy[p]

(* C17: in every turn of the document pass in which the chosen document    *)
(* and the absorbed one both have a publisher role held by an agent, the   *)
(* agent of the absorbed document's publisher role is merged into the      *)
(* agent of the chosen document's publisher role when the two agents       *)
(* differ, and no agent is merged when they are the same.                  *)
C17_PublisherAgentsMerged ==
    BrPassRan =>
        \A k \in DOMAIN Turns :
            LET t  == Turns[k]
                a1 == PublisherAgent(t, t.publisherFirst)
                a2 == PublisherAgent(t, t.publisher)
            IN  (a1 # NoneV /\ a2 # NoneV) =>
                    IF a1 # a2 THEN <<"ra", a1, a2>> \in PublisherCalls(t)
                    ELSE \A c \in PublisherCalls(t) : c[1] # "ra"

(* the (role kind, holder) of a role *)
KindAndHolder(g, r) == <<g.roleType[r], g.heldBy[r]>>

(* the contributors of d that are not to be deleted *)
LiveContributors(g, d) == g.contrib[d] \ g.delAr

(* C18: in every turn of the document pass, for every (role kind, holder)  *)
(* with a holder that a contributor of the merged document has when        *)
(* "Dedupe by same RA" begins, exactly one contributor that is not to be   *)
(* deleted has it when the step ends, and the step merges only roles of    *)
(* the same kind.                                                          *)
C18_OneRolePerPairAfterDedupe ==
    BrPassRan =>
        \A k \in DOMAIN Turns :
            LET t == Turns[k]
            IN  /\ \A r \in t.merged.contrib[t.first] :
                      t.merged.heldBy[r] # NoneV =>
                          Cardinality({q \in LiveContributors(t.deduped, t.first) :
                                          KindAndHolder(t.deduped, q) = KindAndHolder(t.merged, r)}) = 1
                /\ \A c \in SeqToSet(CallsBetween(t.merged, t.deduped)) :
                      t.merged.roleType[c[2]] = t.merged.roleType[c[3]]

(* the merges of the name loop of a turn *)
NameCalls(t) == SeqToSet(CallsBetween(t.deduped, t.named))

(* C19: in every turn of the document pass, the name loop merges a role    *)
(* into another only when the two are different contributors of the merged *)
(* document, both authors, with non-empty names whose similarity           *)
(* 1 - distance is above 0.95, and it drops from the contributor list only *)
(* the roles it merged into another.                                       *)
C19_NameMergeOnlySimilarAuthors ==
    BrPassRan =>
        \A k \in DOMAIN Turns :
            LET t == Turns[k]
                g == t.deduped
            IN  /\ \A c \in NameCalls(t) :
                      /\ c[1] = "ar"
                      /\ c[2] # c[3]
                      /\ {c[2], c[3]} \subseteq g.contrib[t.first]
                      /\ g.roleType[c[2]] = Author /\ g.roleType[c[3]] = Author
                      /\ SimilarNames(ArName(g, c[2]), ArName(g, c[3]))
                /\ g.contrib[t.first] \ t.named.contrib[t.first]
                      \subseteq {c[3] : c \in {x \in NameCalls(t) : x[2] # x[3]}}

(* the agents holding a contributor role of d that is not a publisher role *)
ContributingAgents(g, d) ==
    {g.heldBy[r] : r \in {q \in g.contrib[d] : g.roleType[q] # Publisher}} \ {NoneV}

(* C20: in every turn of the document pass, every agent that holds a       *)
(* contributor role other than publisher of the chosen or of the absorbed  *)
(* document when the turn begins holds a contributor role, not to be       *)
(* deleted, of the chosen document when the turn ends.                     *)
C20_NoContributingAgentLost ==
    BrPassRan =>
        \A k \in DOMAIN Turns :
            LET t == Turns[k]
            IN  \A a \in ContributingAgents(t.pre, t.first) \cup ContributingAgents(t.pre, t.entity) :
                    \E q \in LiveContributors(t.post, t.first) : t.post.heldBy[q] = a

(* C21: when a turn of the document pass ends, the chosen document has no  *)
(* contributor role without a held agent, of any role kind.                *)
C21_NoContributorWithoutHolder ==
    BrPassRan =>
        \A k \in DOMAIN Turns :
            \A q \in Turns[k].post.contrib[Turns[k].first] : Turns[k].post.heldBy[q] # NoneV

(* ------------------------------------------------ the identifier pass   *)
(* the graph set the identifier pass of the first run starts from *)
BeforeIds == InstanceMatchingBr(InstanceMatchingRa(input, ord), ord).g

(* the identifier pass of the first run has returned *)
AfterIdsPass == pc = "save" /\ runs = 0

(* the identifier objects observed for pair k, the first observed first *)
GroupOf(k) == IdIndex(BeforeIds, ord).l2i[k]

(* the pairs whose group has more than one member *)
GroupedKeys == {k \in Keys : Cardinality(SeqToSet(GroupOf(k))) > 1}

(* the documents and agents the identifier pass enumerates *)
Owners == SeqToSet(IdEntities(BeforeIds, ord))

(* C22: when the identifier pass has returned, for every pair whose group  *)
(* of identifier objects held by documents and agents has more than one    *)
(* member, every document or agent that held a member other than the       *)
(* first observed one holds the first observed one and no other member,    *)
(* and no other member is left in the graph set.                           *)
C22_GroupCollapsedOnFirstObserved ==
    AfterIdsPass =>
        \A k \in GroupedKeys :
            LET canon  == Head(GroupOf(k))
                others == SeqToSet(GroupOf(k)) \ {canon}
            IN  /\ \A e \in Owners :
                       IdsOf(BeforeIds, e) \cap others # {}
                           => /\ canon \in IdsOf(gs, e)
                              /\ IdsOf(gs, e) \cap others = {}
                /\ others \cap gs.id = {}

(* C23: when the identifier pass has returned, the first observed          *)
(* identifier object of every pair is still in the graph set and every     *)
(* document or agent that held it before the pass still holds it, in       *)
(* particular when several of them held the same object.                   *)
C23_CanonicalIdentifierKept ==
    AfterIdsPass =>
        \A k \in Keys :
            GroupOf(k) # << >> =>
                LET canon == Head(GroupOf(k))
                IN  /\ canon \in gs.id
                    /\ \A e \in Owners :
                           canon \in IdsOf(BeforeIds, e) => canon \in IdsOf(gs, e)

(* C24: when the identifier pass has returned, every document and agent    *)
(* holds identifiers with exactly the (scheme, literal) pairs of the       *)
(* identifiers it held before the pass.                                    *)
C24_PairsOfOwnersPreserved ==
    AfterIdsPass =>
        \A e \in Owners :
            PairsOf(gs, IdsOf(gs, e)) = PairsOf(BeforeIds, IdsOf(BeforeIds, e))

(* ------------------------------------------------- the cluster builder  *)
(* the edges the scan of the agents, of the documents, of the graph set    *)
(* match() was called on adds to merge_graph                               *)
RaEdges ==
    ScanEdges(ScanPairs(InOrder(input.ra, ord.ra), input.idsRa, ord.id), input.key,
              [k \in Keys \cup {NoneV} |-> NoneV], << >>)

BrEdges ==
    ScanEdges(ScanPairs(InOrder(input.br, ord.br), input.idsBr, ord.id), input.key,
              [k \in Keys \cup {NoneV} |-> NoneV], << >>)

(* C25: every edge the scans add joins two different entities, and every   *)
(* cluster the agent pass or the document pass works on has at least two   *)
(* members, also when an entity holds two identifier objects with the same *)
(* (scheme, literal) pair.                                                 *)
C25_ClustersHaveTwoMembers ==
    /\ \A n \in DOMAIN RaEdges : RaEdges[n][1] # RaEdges[n][2]
    /\ \A n \in DOMAIN BrEdges : BrEdges[n][1] # BrEdges[n][2]
    /\ \A n \in DOMAIN gs.chosen : Cardinality(gs.chosen[n][3]) >= 2

(* the identifiers dict after each step of a scan *)
RECURSIVE ScanAnchors(_, _, _)
ScanAnchors(pairs, keyOf, identifiers) ==
    IF pairs = << >> THEN <<identifiers>>
    ELSE LET e == Head(pairs)[1]
             k == keyOf[Head(pairs)[2]]
         IN  <<identifiers>> \o
             ScanAnchors(Tail(pairs), keyOf,
                         IF identifiers[k] = NoneV THEN [identifiers EXCEPT ![k] = e]
                         ELSE identifiers)

RaAnchors ==
    ScanAnchors(ScanPairs(InOrder(input.ra, ord.ra), input.idsRa, ord.id), input.key,
                [k \in Keys \cup {NoneV} |-> NoneV])

BrAnchors ==
    ScanAnchors(ScanPairs(InOrder(input.br, ord.br), input.idsBr, ord.id), input.key,
                [k \in Keys \cup {NoneV} |-> NoneV])

AnchorsKept(anchors) ==
    \A n, m \in DOMAIN anchors :
        \A k \in Keys \cup {NoneV} :
            (n < m /\ anchors[n][k] # NoneV) => anchors[m][k] = anchors[n][k]

(* two entities hold an identifier with the same (scheme, literal) pair *)
SharePair(idsOf, a, b) ==
    \E i \in idsOf[a], j \in idsOf[b] : input.key[i] = input.key[j]

(* the entities linked to an entity of S by a chain of shared pairs *)
RECURSIVE Linked(_, _, _)
Linked(S, ents, idsOf) ==
    LET T == S \cup {b \in ents : \E a \in S : SharePair(idsOf, a, b)}
    IN  IF T = S THEN S ELSE Linked(T, ents, idsOf)

(* the connected components, of two members or more, of the relation *)
SharedComponents(ents, idsOf) ==
    {c \in {Linked({a}, ents, idsOf) : a \in ents} : Cardinality(c) >= 2}

(* C26: in the scans of the agents and of the documents the entity kept    *)
(* for a (scheme, literal) pair never changes once set, and the clusters   *)
(* are exactly the connected components, of two members or more, of the    *)
(* relation "hold an identifier with the same pair".                       *)
C26_ClustersAreSharedComponents ==
    /\ AnchorsKept(RaAnchors) /\ AnchorsKept(BrAnchors)
    /\ SeqToSet(RaClusters(input, ord)) = SharedComponents(input.ra, input.idsRa)
    /\ SeqToSet(BrClusters(input, ord)) = SharedComponents(input.br, input.idsBr)

(* C27: in the document pass no document absorbed by a merge, and so to be *)
(* deleted, is the survivor or the absorbed side of a later merge of the   *)
(* pass: the pass stops before it merges such a member of a cluster.       *)
C27_NoMergeOfTombstoned ==
    runs = 0 =>
        \A i, j \in DOMAIN gs.calls :
            (i < j /\ gs.calls[i][1] = "br" /\ gs.calls[j][1] = "br")
                => gs.calls[i][3] \notin {gs.calls[j][2], gs.calls[j][3]}

(* --------------------------------------------------- errors and ending  *)
(* every document of the graph set match() was called on carries the       *)
(* Expression type and every identifier held by a document or an agent has *)
(* a scheme and a literal: the two calls of the passes that raise on a     *)
(* missing value ("p1types.remove(...)", line 217, and                     *)
(* "i.get_scheme() + '#' + ...", line 314) find the value they need        *)
TypedAndKeyed ==
    /\ \A d \in input.br : Expression \in input.types[d]
    /\ \A d \in input.br : \A i \in input.idsBr[d] : input.key[i] # NoneV
    /\ \A a \in input.ra : \A i \in input.idsRa[a] : input.key[i] # NoneV

(* C28: on such a graph set no pass raises an error, whether roles have no *)
(* held agent, documents have no container or no publisher role, or the    *)
(* containers of two merged documents have no type in common.              *)
C28_NoErrorOnMissingOptionals == TypedAndKeyed => pc # "error"

(* the document pass has committed after a turn in which the containers of *)
(* the two documents had no type in common and the absorbed document had a *)
(* role without held agent and no publisher role, and after a turn in      *)
(* which neither document had a container                                  *)
C28_Witness ==
    /\ pc = "ids"
    /\ TypedAndKeyed
    /\ LastEvent(Len(gs.calls)) = "commit"
    /\ \E k \in DOMAIN Turns :
          LET t == Turns[k]
          IN  /\ t.firstPartofs # << >> /\ t.partofs # << >>
              /\ ContainerCalls(t) = {}
              /\ t.publisher = NoneV /\ t.publisherFirst = NoneV
              /\ \E q \in t.pre.contrib[t.entity] : t.pre.heldBy[q] = NoneV
    /\ \E k \in DOMAIN Turns :
          Turns[k].firstPartofs = << >> /\ Turns[k].partofs = << >>

(* no part_of chain of the graph set match() was called on has a cycle *)
AcyclicInput == \A d \in input.br : ~WalkHangs(input, d)

(* C29: on a graph set whose part_of chains have no cycle, match() ends:   *)
(* no merge of the document pass closes a part_of chain into a cycle that  *)
(* a later walk of the chain follows forever.                              *)
C29_MatchTerminates == AcyclicInput => pc # "hang"

(* ------------------------------------------------------ ORCID.__get_data *)
(* the value returned for a 200 response: the text, decoded when is_json   *)
BodyOf(r) == IF getData.is_json THEN JsonLoads(r.text) ELSE <<"text", r.text>>

(* the responses that end the call: a 404, and a 200 whose text can be     *)
(* returned (any text, or with is_json a text json.loads decodes)          *)
Ends(r) ==
    /\ r.raised = "none"
    /\ \/ r.status = 404
       \/ r.status = 200 /\ (getData.is_json => Decodable(r.text))

(* the responses that end the call when every 200 response is taken to     *)
(* end it                                                                  *)
EndsOn200Or404(r) == r.raised = "none" /\ r.status \in {200, 404}

(* one request per turn of the loop, one sleep before every turn but the   *)
(* first, at most max_iteration requests                                   *)
RequestsCounted ==
    LET d == getData
    IN  /\ Len(d.responses) <= d.max_iteration
        /\ Len(d.responses) = IF d.at = "get" THEN d.tentative - 1 ELSE d.tentative
        /\ d.sleeps = IF d.tentative = 0 THEN 0 ELSE d.tentative - 1

(* the call has returned exactly when a response ended it or               *)
(* max_iteration requests failed, with the value that goes with it         *)
ReturnsOn(ends(_)) ==
    LET d == getData
        n == Len(d.responses)
    IN  /\ \A k \in 1..n :
               ends(d.responses[k])
                   => /\ k = n
                      /\ d.at = "returned"
                      /\ d.result = IF d.responses[k].status = 200
                                    THEN BodyOf(d.responses[k]) ELSE <<"None">>
        /\ (d.at = "returned" /\ (n = 0 \/ ~ends(d.responses[n])))
               => n = d.max_iteration /\ d.result = <<"None">>
        /\ (d.at # "returned" /\ d.at # "none") => d.result = <<"unset">>

(* C30: a call of __get_data sends at most max_iteration requests and      *)
(* returns: the text of the first 200 response, decoded when is_json is    *)
(* set, a 200 response whose text json.loads cannot decode counting as a   *)
(* failed attempt; None at once on a 404; None after max_iteration failed  *)
(* attempts, with a sleep of sec_to_wait before every attempt but the      *)
(* first.                                                                  *)
C30_GetDataReturns ==
    /\ [](RequestsCounted /\ ReturnsOn(Ends))
    /\ <>(getData.at = "returned")

(* C30 as stated: the call returns the body on the first 200 response,     *)
(* whatever its text.                                                      *)
C30_ReturnsOnFirst200 ==
    /\ [](RequestsCounted /\ ReturnsOn(EndsOn200Or404))
    /\ <>(getData.at = "returned")

(* a call with is_json set has returned the decoded text of its third      *)
(* response, after another status and a 200 response that is no JSON       *)
C30_Witness ==
    /\ getData.at = "returned"
    /\ getData.is_json
    /\ Len(getData.responses) = 3
    /\ getData.responses[1].status \in OtherStatuses
    /\ getData.responses[2].status = 200 /\ ~Decodable(getData.responses[2].text)
    /\ getData.responses[3].status = 200
    /\ getData.result = JsonLoads(getData.responses[3].text)
    /\ getData.sleeps = 2

====
